---------------------------- MODULE Spec2Model ----------------------------
(***************************************************************************)
(* A model of two components of swan:                                      *)
(*   - the janitor's upstream registry (src/src/janitor/upstream.go);      *)
(*   - the per-application state machine                                   *)
(*     (src/src/manager/framework/state/app_state_machine.go).             *)
(* Each component has its own specification over its own variables; the    *)
(* variables of the other component do not change under it.                *)
(***************************************************************************)
EXTENDS Integers, Sequences, FiniteSets, TLC

VARIABLES
    \* ---- app state machine ----
    state,        \* machine.state: the name of the current State, or NoState (nil)
    lock,         \* machine.lock: the goroutine holding the mutex, or NoProc
    pc,           \* per goroutine: its position inside TransitTo
    arg,          \* per goroutine: targetStateString of its current call
    ret,          \* per goroutine: how its last call ended
    seen,         \* per goroutine: the state it read at the CanTransitTo check
    hooks,        \* per goroutine: OnExit/OnEnter invocations made by its current call
    wrote,        \* per goroutine: whether its current call assigned machine.state
    lastChange,   \* the last assignment TransitTo made to machine.state: <<from, to>>
    started,      \* Start() calls made so far (OnEnter(creating) invocations)
    entered,      \* the states whose OnEnter Start() has invoked, in order
    obs,          \* the last ReadableState() / Is() call and what it gave
    \* ---- upstream registry ----
    Upstreams,    \* us.Upstreams: the list of upstreams, each with its list of targets
    sessions,     \* per upstream object: its Sessions store, remoteIP -> target
    wop,          \* the writer's last call: upsertTarget or removeTarget
    warg,         \* the *Target passed to it
    wret,         \* what it returned
    wbranch,      \* the branch of it that ran
    \* ---- lookups on the registry ----
    lpc,          \* per lookup goroutine: its position inside lookupAlias / lookup
    lcall,        \* per lookup goroutine: the call and its arguments
    lu,           \* per lookup goroutine: u, the *Upstream it found (its object identity)
    lt,           \* per lookup goroutine: t, the *Target it resolved and will return
                  \*   (its TaskID)
    absent,       \* for the observed lookup goroutine: the task ids that were in no
                  \*   upstream when its call started and have not been upserted since
    expect,       \* for the observed lookup goroutine: the target its previous call for
                  \*   the same remoteIP and appID returned, while no target was removed
                  \*   and no session expired since
    clean,        \* for the observed lookup goroutine: since its call started no target
                  \*   was removed, no session expired and no other lookup started
    last,         \* per remoteIP and appID: the target the observed goroutine's latest
                  \*   call returned, while no target was removed and no session expired
    \* ---- placement constraints ----
    stmt,         \* the Statement at hand, or NoStmt
    ctx,          \* the ConstraintContextHolder set on it: the offer and the slot
    cpc,          \* what was done with the statement last
    cvalid,       \* what stmt.Valid() returned
    ceval,        \* what stmt.Eval() returned, or Panic
    \* ---- event subscription ----
    ring,         \* what Scheduler.HealthyTaskEvents() returns: the events so far
    attached,     \* whether the subscriber's listener is registered on the event bus
    sub,          \* the subscription request at hand: appId and catchUp
    hpc,          \* the position of the Events handler
    gpc,          \* the position of the goroutine the handler starts
    replay,       \* the events that goroutine still has to write
    out,          \* what was written to the subscriber, in order: each event with the
                  \*   way it came (replay or live)
    closed,       \* whether the subscriber has disconnected
    pubd,         \* the ids of the events published since the handler started and
                  \*   before the subscriber disconnected
    \* ---- the registry's RWMutex ----
    rw,           \* us.RWMutex: the goroutine holding Lock and those holding RLock
    wpc,          \* the position of the goroutine inside upsertTarget / removeTarget
    lastRead      \* the last read of us.Upstreams or of a target list: the function
                  \*   reading, whether its goroutine held the lock, and whether a
                  \*   writer was between Lock and Unlock

smVars == <<state, lock, pc, arg, ret, seen, hooks, wrote, lastChange, started,
            entered, obs>>
regVars == <<Upstreams, sessions, wop, warg, wret, wbranch>>
lookVars == <<lpc, lcall, lu, lt, absent, expect, clean, last>>
conVars == <<stmt, ctx, cpc, cvalid, ceval>>
evVars == <<ring, attached, sub, hpc, gpc, replay, out, closed, pubd>>
lockVars == <<rw, wpc, lastRead>>
\* the variables of the components other than the state machine and the
\* upstream registry
otherVars == <<conVars, evVars, lockVars>>
\* what the steps on constraints leave alone
conFrame == <<smVars, regVars, lookVars, evVars, lockVars>>
\* what the steps of the event subscription leave alone
evFrame == <<smVars, regVars, lookVars, conVars, lockVars>>
\* what the steps on the registry's lock leave alone
lockFrame == <<smVars, conVars, evVars, absent, expect, clean, last, wret, wbranch>>
vars == <<smVars, regVars, lookVars, otherVars>>

-----------------------------------------------------------------------------
(* App state machine                                                       *)

APP_STATE_NORMAL == "normal"
APP_STATE_CREATING == "creating"
APP_STATE_DELETING == "deleting"
APP_STATE_UPDATING == "updating"
APP_STATE_CANCEL_UPDATE == "cancel_update"
APP_STATE_SCALE_UP == "scale_up"
APP_STATE_SCALE_DOWN == "scale_down"

StateNames ==
    {APP_STATE_NORMAL, APP_STATE_CREATING, APP_STATE_DELETING, APP_STATE_UPDATING,
     APP_STATE_CANCEL_UPDATE, APP_STATE_SCALE_UP, APP_STATE_SCALE_DOWN}

\* machine.state before Start(): the nil interface value
NoState == "<nil>"
NoProc == "<none>"
\* what StateFactory yields instead of a State when it panics
Panic == "<panic>"

\* the goroutines that call TransitTo on one machine
Procs == {"g1", "g2"}

\* the strings callers pass to TransitTo: every state name and one that names no state
TransitArgs == StateNames \cup {"bogus"}

\* State.CanTransitTo of each state, from the transition table (the State
\* implementations are not among the sources)
CanTransitTo(from, to) ==
    CASE from = APP_STATE_CREATING -> to \in {APP_STATE_NORMAL, APP_STATE_DELETING}
      [] from = APP_STATE_NORMAL ->
            to \in {APP_STATE_SCALE_UP, APP_STATE_SCALE_DOWN, APP_STATE_UPDATING,
                    APP_STATE_DELETING}
      [] from = APP_STATE_SCALE_UP -> to \in {APP_STATE_NORMAL, APP_STATE_DELETING}
      [] from = APP_STATE_SCALE_DOWN -> to \in {APP_STATE_NORMAL, APP_STATE_DELETING}
      [] from = APP_STATE_UPDATING ->
            to \in {APP_STATE_NORMAL, APP_STATE_CANCEL_UPDATE, APP_STATE_DELETING}
      [] from = APP_STATE_CANCEL_UPDATE -> to \in {APP_STATE_NORMAL, APP_STATE_DELETING}
      [] OTHER -> FALSE

\* StateMachine.StateFactory: the switch has no case for updating and cancel_update
StateFactory(stateName) ==
    CASE stateName = APP_STATE_NORMAL -> APP_STATE_NORMAL
      [] stateName = APP_STATE_CREATING -> APP_STATE_CREATING
      [] stateName = APP_STATE_DELETING -> APP_STATE_DELETING
      [] stateName = APP_STATE_SCALE_UP -> APP_STATE_SCALE_UP
      [] stateName = APP_STATE_SCALE_DOWN -> APP_STATE_SCALE_DOWN
      [] OTHER -> Panic

\* no ReadableState() / Is() call was made yet
NoObs == [op |-> "none", arg |-> "", result |-> "none"]

SMInit ==
    /\ state = NoState
    /\ lock = NoProc
    /\ pc = [p \in Procs |-> "idle"]
    /\ arg = [p \in Procs |-> "bogus"]
    /\ ret = [p \in Procs |-> "none"]
    /\ seen = [p \in Procs |-> NoState]
    /\ hooks = [p \in Procs |-> <<>>]
    /\ wrote = [p \in Procs |-> FALSE]
    /\ lastChange = <<>>
    /\ started = 0
    /\ entered = <<>>
    /\ obs = NoObs

\* StateMachine.Start: machine.state = NewStateCreating(machine); OnEnter().
\* The owner of the machine calls it once, right after NewStateMachine.
Start ==
    /\ started = 0
    /\ state' = APP_STATE_CREATING
    /\ started' = started + 1
    /\ entered' = Append(entered, APP_STATE_CREATING)
    /\ UNCHANGED <<lock, pc, arg, ret, seen, hooks, wrote, lastChange, obs>>
    /\ UNCHANGED <<regVars, lookVars, otherVars>>

\* a goroutine enters TransitTo(target)
TransitCall(p, target) ==
    /\ pc[p] \in {"idle", "returned"}
    /\ pc' = [pc EXCEPT ![p] = "check"]
    /\ arg' = [arg EXCEPT ![p] = target]
    /\ ret' = [ret EXCEPT ![p] = "none"]
    /\ seen' = [seen EXCEPT ![p] = NoState]
    /\ hooks' = [hooks EXCEPT ![p] = <<>>]
    /\ wrote' = [wrote EXCEPT ![p] = FALSE]
    /\ UNCHANGED <<state, lock, lastChange, started>>
    /\ UNCHANGED <<entered, obs, regVars, lookVars, otherVars>>

\* a check that lets every call through (the else branch is never taken)
TransitCheckAlways(p) ==
    /\ pc[p] = "check"
    /\ seen' = [seen EXCEPT ![p] = state]
    /\ pc' = [pc EXCEPT ![p] = IF state = NoState THEN "panicked" ELSE "lock"]
    /\ ret' = [ret EXCEPT ![p] = IF state = NoState THEN "panic" ELSE "none"]
    /\ UNCHANGED <<state, lock, arg, hooks, wrote, lastChange, started>>
    /\ UNCHANGED <<entered, obs, regVars, lookVars, otherVars>>

\* line 52 and lines 61-63: machine.state.CanTransitTo(target), read without the
\* lock; on false the call returns the error. On a machine that was never
\* started machine.state is nil and the method call panics.
TransitCheck(p) ==
    /\ pc[p] = "check"
    /\ seen' = [seen EXCEPT ![p] = state]
    /\ IF state = NoState
         THEN /\ pc' = [pc EXCEPT ![p] = "panicked"]
              /\ ret' = [ret EXCEPT ![p] = "panic"]
         ELSE IF CanTransitTo(state, arg[p])
           THEN /\ pc' = [pc EXCEPT ![p] = "lock"]
                /\ ret' = ret
           ELSE /\ pc' = [pc EXCEPT ![p] = "returned"]
                /\ ret' = [ret EXCEPT ![p] = "error"]
    /\ UNCHANGED <<state, lock, arg, hooks, wrote, lastChange, started>>
    /\ UNCHANGED <<entered, obs, regVars, lookVars, otherVars>>

\* line 53: machine.lock.Lock()
TransitLock(p) ==
    /\ pc[p] = "lock"
    /\ lock = NoProc
    /\ lock' = p
    /\ pc' = [pc EXCEPT ![p] = "exit"]
    /\ UNCHANGED <<state, arg, ret, seen, hooks, wrote, lastChange, started>>
    /\ UNCHANGED <<entered, obs, regVars, lookVars, otherVars>>

\* line 55: machine.state.OnExit()
TransitOnExit(p) ==
    /\ pc[p] = "exit"
    /\ hooks' = [hooks EXCEPT ![p] = Append(@, <<"OnExit", state>>)]
    /\ pc' = [pc EXCEPT ![p] = "factory"]
    /\ UNCHANGED <<state, lock, arg, ret, seen, wrote, lastChange, started>>
    /\ UNCHANGED <<entered, obs, regVars, lookVars, otherVars>>

\* line 56: machine.state = machine.StateFactory(target); a panic of the
\* factory unwinds TransitTo past the Unlock of line 59, which is not deferred
TransitFactory(p) ==
    /\ pc[p] = "factory"
    /\ IF StateFactory(arg[p]) = Panic
         THEN /\ pc' = [pc EXCEPT ![p] = "panicked"]
              /\ ret' = [ret EXCEPT ![p] = "panic"]
              /\ UNCHANGED <<state, wrote, lastChange>>
         ELSE /\ state' = StateFactory(arg[p])
              /\ lastChange' = <<state, StateFactory(arg[p])>>
              /\ wrote' = [wrote EXCEPT ![p] = TRUE]
              /\ pc' = [pc EXCEPT ![p] = "enter"]
              /\ ret' = ret
    /\ UNCHANGED <<lock, arg, seen, hooks, started>>
    /\ UNCHANGED <<entered, obs, regVars, lookVars, otherVars>>

\* line 57: machine.state.OnEnter()
TransitOnEnter(p) ==
    /\ pc[p] = "enter"
    /\ hooks' = [hooks EXCEPT ![p] = Append(@, <<"OnEnter", state>>)]
    /\ pc' = [pc EXCEPT ![p] = "unlock"]
    /\ UNCHANGED <<state, lock, arg, ret, seen, wrote, lastChange, started>>
    /\ UNCHANGED <<entered, obs, regVars, lookVars, otherVars>>

\* lines 59-60: machine.lock.Unlock(); return nil
TransitUnlock(p) ==
    /\ pc[p] = "unlock"
    /\ lock' = NoProc
    /\ pc' = [pc EXCEPT ![p] = "returned"]
    /\ ret' = [ret EXCEPT ![p] = "nil"]
    /\ UNCHANGED <<state, arg, seen, hooks, wrote, lastChange, started>>
    /\ UNCHANGED <<entered, obs, regVars, lookVars, otherVars>>

\* StateMachine.ReadableState, lines 40-42: machine.state.Name(); on a nil
\* machine.state the method call panics
ReadableStateCall ==
    /\ obs' = [op |-> "ReadableState", arg |-> "",
               result |-> IF state = NoState THEN Panic ELSE state]
    /\ UNCHANGED <<state, lock, pc, arg, ret, seen, hooks, wrote, lastChange,
                   started, entered>>
    /\ UNCHANGED <<regVars, lookVars, otherVars>>

\* StateMachine.Is(stateExpected), lines 45-47
IsCall(stateExpected) ==
    /\ obs' = [op |-> "Is", arg |-> stateExpected,
               result |-> IF state = NoState THEN Panic
                          ELSE IF state = stateExpected THEN "true" ELSE "false"]
    /\ UNCHANGED <<state, lock, pc, arg, ret, seen, hooks, wrote, lastChange,
                   started, entered>>
    /\ UNCHANGED <<regVars, lookVars, otherVars>>

SMNext ==
    \/ Start
    \/ \E p \in Procs, target \in TransitArgs : TransitCall(p, target)
    \/ \E p \in Procs : TransitCheck(p)
    \/ \E p \in Procs : TransitLock(p)
    \/ \E p \in Procs : TransitOnExit(p)
    \/ \E p \in Procs : TransitFactory(p)
    \/ \E p \in Procs : TransitOnEnter(p)
    \/ \E p \in Procs : TransitUnlock(p)

-----------------------------------------------------------------------------
(* Upstream registry: data                                                 *)

\* the number of well-formed task ids per application the callers draw from
MaxTasks == 2

AppIDs == {"a", "b"}
Aliases == {"foo", "bar"}
RemoteIPs == {"1.2.3.4"}
\* identities of Upstream objects (pointers)
ObjIds == AppIDs \X (0..2)
\* the goroutines that call lookup / lookupAlias
LookupProcs == {"r1", "r2"}
\* the lookup goroutine whose calls the claims are stated for (the goroutines
\* are interchangeable)
Observed == "r1"

\* the nil *Target / nil *Upstream
NoTarget == "<nil>"
NoUpstream == <<"", 0>>

\* the task ids of an application that carry the "-"+AppID suffix
TaskIDsOf(appID) == {"t" \o ToString(i) \o "-" \o appID : i \in 1..MaxTasks}

\* type Target struct
Target(appID, appAlias, versionID, taskID) ==
    [AppID |-> appID, AppAlias |-> appAlias, VersionID |-> versionID,
     AppVersion |-> IF versionID = "v1" THEN "1.0" ELSE "2.0",
     TaskID |-> taskID,
     TaskIP |-> IF versionID = "v1" THEN "10.0.0.1" ELSE "10.0.0.2",
     TaskPort |-> IF versionID = "v1" THEN 80 ELSE 8080,
     Weight |-> IF versionID = "v1" THEN 1 ELSE 0]

\* strings.HasSuffix
HasSuffix(s, suffix) ==
    /\ Len(s) >= Len(suffix)
    /\ SubSeq(s, Len(s) - Len(suffix) + 1, Len(s)) = suffix

\* Target.valid: nil when the target is well formed, else the error (t is
\* never the nil pointer here)
valid(t) ==
    IF t.AppID = "" \/ t.TaskID = "" THEN "app_id or task_id required"
    ELSE IF t.TaskIP = "" \/ t.TaskPort = 0 THEN "task_ip or task_port required"
    ELSE IF ~HasSuffix(t.TaskID, "-" \o t.AppID)
        THEN "invalid task_id, must be suffixed by app_id"
    ELSE "nil"

\* the targets the writers are called with: application a under its alias foo
\* with well-formed task ids, its first task also under the alias bar, in a
\* second version, and with a task id ("x") without the suffix; application b
\* with one task under either alias
RegTargets ==
    {Target("a", "foo", "v1", id) : id \in TaskIDsOf("a")}
    \cup {Target("a", "bar", "v1", "t1-a"), Target("a", "foo", "v2", "t1-a"),
          Target("a", "foo", "v1", "x")}
    \cup {Target("b", al, "v1", "t1-b") : al \in Aliases}

\* Sessions as newSessions() makes it: no remoteIP is bound
newSessions == [ip \in RemoteIPs |-> NoTarget]

\* newUpstream(appID, appAlias), as the object obj
newUpstream(obj, appID, appAlias) ==
    [obj |-> obj, AppID |-> appID, AppAlias |-> appAlias, Targets |-> <<>>]

\* the index at which a for-range search loop returns: the first of the
\* matching indices hit, or 0 (Go: -1, nil) when there is none
First(hit) == IF hit = {} THEN 0 ELSE CHOOSE i \in hit : \A j \in hit : i <= j

\* Upstreams.getUpstreamByID
getUpstreamByID(ups, appID) == First({i \in 1..Len(ups) : ups[i].AppID = appID})

\* an alias search that never finds anything
getUpstreamByAliasNone(ups, alias) == 0

\* Upstreams.getUpstreamByAlias
getUpstreamByAlias(ups, alias) == First({i \in 1..Len(ups) : ups[i].AppAlias = alias})

\* a target search that never finds anything
getTargetNone(targets, taskID) == 0

\* Upstream.getTarget
getTarget(targets, taskID) ==
    First({i \in 1..Len(targets) : targets[i].TaskID = taskID})

\* append(s[:i], s[i+1:]...) with the 1-based index i
RemoveAt(seq, i) == SubSeq(seq, 1, i - 1) \o SubSeq(seq, i + 1, Len(seq))

\* the identity of the Upstream object newUpstream allocates for appID: one
\* that no upstream of ups and no goroutine (held) still refers to
FreshObj(ups, held, appID) ==
    LET used == {ups[i].obj : i \in 1..Len(ups)} \cup held
        free == {n \in 0..2 : <<appID, n>> \notin used}
    IN  <<appID, CHOOSE n \in free : \A m \in free : n <= m>>

\* an upsertTarget that reports the alias conflict and inserts all the same
upsertTargetDespiteConflict(ups, target, obj) ==
    LET iu == getUpstreamByID(ups, target.AppID) IN
    IF iu = 0
      THEN [ups |-> Append(ups, [newUpstream(obj, target.AppID, target.AppAlias)
                                    EXCEPT !.Targets = <<target>>]),
            err |-> IF getUpstreamByAlias(ups, target.AppAlias) > 0
                      THEN "alias conflict" ELSE "nil",
            branch |-> IF getUpstreamByAlias(ups, target.AppAlias) > 0
                         THEN "conflict" ELSE "new upstream"]
      ELSE LET it == getTarget(ups[iu].Targets, target.TaskID) IN
           IF it = 0
             THEN [ups |-> [ups EXCEPT ![iu].Targets = Append(@, target)],
                   err |-> "nil", branch |-> "new target"]
             ELSE [ups |-> [ups EXCEPT ![iu].Targets[it] =
                               [@ EXCEPT !.VersionID = target.VersionID,
                                         !.AppVersion = target.AppVersion,
                                         !.TaskIP = target.TaskIP,
                                         !.TaskPort = target.TaskPort,
                                         !.Weight = target.Weight]],
                   err |-> "nil", branch |-> "update"]

\* Upstreams.upsertTarget between Lock and Unlock: the registry it leaves, the
\* error it returns and the branch it took
upsertTarget(ups, target, obj) ==
    LET appID == target.AppID
        appAlias == target.AppAlias
        taskID == target.TaskID
        iu == getUpstreamByID(ups, appID)
    IN  IF iu = 0
          THEN IF getUpstreamByAlias(ups, appAlias) > 0
                 THEN [ups |-> ups, err |-> "alias conflict", branch |-> "conflict"]
                 ELSE [ups |-> Append(ups, [newUpstream(obj, appID, appAlias)
                                               EXCEPT !.Targets = <<target>>]),
                       err |-> "nil", branch |-> "new upstream"]
          ELSE LET it == getTarget(ups[iu].Targets, taskID) IN
               IF it = 0
                 THEN [ups |-> [ups EXCEPT ![iu].Targets = Append(@, target)],
                       err |-> "nil", branch |-> "new target"]
                 ELSE [ups |-> [ups EXCEPT ![iu].Targets[it] =
                                   [@ EXCEPT !.VersionID = target.VersionID,
                                             !.AppVersion = target.AppVersion,
                                             !.TaskIP = target.TaskIP,
                                             !.TaskPort = target.TaskPort,
                                             !.Weight = target.Weight]],
                       err |-> "nil", branch |-> "update"]

\* a removeTarget that keeps an upstream it has emptied
removeTargetKeepEmpty(ups, target) ==
    LET iu == getUpstreamByID(ups, target.AppID) IN
    IF iu = 0 THEN [ups |-> ups, branch |-> "no upstream"]
    ELSE LET it == getTarget(ups[iu].Targets, target.TaskID) IN
         IF it = 0 THEN [ups |-> ups, branch |-> "no target"]
         ELSE [ups |-> [ups EXCEPT ![iu].Targets = RemoveAt(@, it)],
               branch |-> "target removed"]

\* Upstreams.removeTarget between Lock and Unlock: the registry it leaves and
\* the branch it took
removeTarget(ups, target) ==
    LET appID == target.AppID
        taskID == target.TaskID
        iu == getUpstreamByID(ups, appID)
    IN  IF iu = 0 THEN [ups |-> ups, branch |-> "no upstream"]
        ELSE LET it == getTarget(ups[iu].Targets, taskID) IN
             IF it = 0 THEN [ups |-> ups, branch |-> "no target"]
             ELSE LET rest == RemoveAt(ups[iu].Targets, it) IN
                  IF Len(rest) = 0
                    THEN [ups |-> RemoveAt(ups, iu), branch |-> "upstream removed"]
                    ELSE [ups |-> [ups EXCEPT ![iu].Targets = rest],
                          branch |-> "target removed"]

\* Sessions.remove(taskID): drop every session bound to that task
SessionsRemove(sess, taskID) ==
    [ip \in RemoteIPs |-> IF sess[ip] = taskID THEN NoTarget ELSE sess[ip]]

-----------------------------------------------------------------------------
(* Upstream registry: the writers (upsertTarget, removeTarget)             *)

\* upsertTarget and removeTarget run from us.Lock() to the deferred
\* us.Unlock(): no other writer and no RLock section runs in between, so each
\* is one step.

\* the upstream objects the lookup goroutines procs hold a pointer to
HeldBy(procs) == {lu[p] : p \in {q \in procs : lu[q] # NoUpstream}}

\* the objects of the upstreams of ups
ObjsOf(ups) == {ups[i].obj : i \in 1..Len(ups)}

\* all task ids held by the registry ups
TasksIn(ups) ==
    UNION {{ups[i].Targets[j].TaskID : j \in 1..Len(ups[i].Targets)} : i \in 1..Len(ups)}

\* the Sessions stores, those of upstream objects nothing refers to any more
\* being gone
Reachable(sess, ups, held) ==
    [o \in ObjIds |-> IF o \in ObjsOf(ups) \cup held THEN sess[o] ELSE newSessions]

RegInit ==
    /\ Upstreams = <<>>
    /\ sessions = [o \in ObjIds |-> newSessions]
    /\ wop = "none"
    /\ warg = NoTarget
    /\ wret = "none"
    /\ wbranch = "none"

\* the record of the writer's last call, kept when rec is set
Record(rec, op, target, err, branch) ==
    IF rec
      THEN wop' = op /\ warg' = target /\ wret' = err /\ wbranch' = branch
      ELSE UNCHANGED <<wop, warg, wret, wbranch>>

\* Upstreams.upsertTarget(target), lines 51-88
Upsert(target, rec) ==
    /\ LET obj == FreshObj(Upstreams, HeldBy(LookupProcs), target.AppID)
           r == upsertTarget(Upstreams, target, obj)
       IN  /\ Upstreams' = r.ups
           /\ sessions' = IF r.branch = "new upstream"
                            THEN [sessions EXCEPT ![obj] = newSessions]
                            ELSE sessions
           /\ Record(rec, "upsertTarget", target, r.err, r.branch)
    /\ absent' = absent \ {target.TaskID}
    /\ UNCHANGED <<lpc, lcall, lu, lt, expect, clean, last>>
    /\ UNCHANGED <<smVars, otherVars>>

\* Upstreams.removeTarget(target), lines 103-131: the target goes, and with it
\* the sessions bound to its task (u.sessions.remove); an emptied upstream goes
\* too
Remove(target, rec) ==
    /\ LET r == removeTarget(Upstreams, target)
           iu == getUpstreamByID(Upstreams, target.AppID)
           removed == r.branch \in {"target removed", "upstream removed"}
       IN  /\ Upstreams' = r.ups
           /\ sessions' =
                 IF removed
                   THEN Reachable([sessions EXCEPT ![Upstreams[iu].obj] =
                                      SessionsRemove(@, target.TaskID)],
                                  r.ups, HeldBy(LookupProcs))
                   ELSE sessions
           /\ Record(rec, "removeTarget", target, "nil", r.branch)
           /\ clean' = IF removed THEN FALSE ELSE clean
           /\ expect' = IF removed THEN NoTarget ELSE expect
           /\ last' = IF removed THEN [k \in DOMAIN last |-> NoTarget] ELSE last
    /\ UNCHANGED <<lpc, lcall, lu, lt, absent>>
    /\ UNCHANGED <<smVars, otherVars>>

-----------------------------------------------------------------------------
(* Upstream registry: lookup and lookupAlias                               *)

\* the targets the writers are called with while lookups run: two tasks of
\* application a, the first also in its second version (of weight 0)
LookTargets ==
    {Target("a", "foo", "v1", "t1-a"), Target("a", "foo", "v2", "t1-a"),
     Target("a", "foo", "v1", "t2-a")}

LookTaskIDs == {t.TaskID : t \in LookTargets}

\* the calls of the observed lookup goroutine: lookup(remoteIP, appID, taskID)
\* for a registered application with and without a task id and for an unknown
\* application, and lookupAlias(remoteIP, appAlias) for a registered and for an
\* unknown alias
LookupCalls ==
    {[kind |-> "lookup", ip |-> ip, key |-> "a", app |-> "a", task |-> task] :
        ip \in RemoteIPs, task \in {"", "t2-a"}}
    \cup {[kind |-> "lookup", ip |-> ip, key |-> "zz", app |-> "zz", task |-> ""] :
        ip \in RemoteIPs}
    \cup {[kind |-> "lookupAlias", ip |-> ip, key |-> al, app |-> "", task |-> ""] :
        ip \in RemoteIPs, al \in {"foo", "nope"}}

\* the calls of the other lookup goroutine: the proxied requests of the same
\* client for the same application
BackgroundCalls == {c \in LookupCalls : c.kind = "lookup" /\ c.app = "a" /\ c.task = ""}

CallsOf(p) == IF p = Observed THEN LookupCalls ELSE BackgroundCalls

NoCall == [kind |-> "none", ip |-> "", key |-> "", app |-> "", task |-> ""]

LookInit ==
    /\ lpc = [p \in LookupProcs |-> "idle"]
    /\ lcall = [p \in LookupProcs |-> NoCall]
    /\ lu = [p \in LookupProcs |-> NoUpstream]
    /\ lt = [p \in LookupProcs |-> NoTarget]
    /\ absent = {}
    /\ expect = NoTarget
    /\ clean = FALSE
    /\ last = [k \in RemoteIPs \X {"a", "zz"} |-> NoTarget]

\* Sessions.get(remoteIP): the target bound to remoteIP, or nil
SessionsGet(sess, ip) == sess[ip]

\* Sessions.update(remoteIP, t): bind (or refresh) the session remoteIP -> t
SessionsUpdate(sess, ip, t) == [sess EXCEPT ![ip] = t]

\* Balancer.Next(targets), the weighted default: the targets it may return (nil
\* for an empty list; a zero-weight target only when every weight is zero)
BalancerNext(targets) ==
    LET idx == 1..Len(targets)
        pos == {i \in idx : targets[i].Weight > 0}
    IN  IF idx = {} THEN {NoTarget}
        ELSE {targets[i].TaskID : i \in (IF pos = {} THEN idx ELSE pos)}

\* a lookup goroutine enters lookup or lookupAlias
LCall(p, call) ==
    /\ lpc[p] = "idle"
    /\ lcall' = [lcall EXCEPT ![p] = call]
    /\ lpc' = [lpc EXCEPT ![p] = IF call.kind = "lookupAlias" THEN "alias" ELSE "byid"]
    /\ IF p = Observed
         THEN /\ absent' = LookTaskIDs \ TasksIn(Upstreams)
              /\ clean' = \A q \in LookupProcs \ {p} : lpc[q] = "idle"
              /\ expect' = IF call.kind = "lookup" THEN last[<<call.ip, call.app>>]
                           ELSE NoTarget
         ELSE /\ clean' = FALSE
              /\ UNCHANGED <<absent, expect>>
    /\ UNCHANGED <<Upstreams, sessions, wop, warg, wret, wbranch, lu, lt, last>>
    /\ UNCHANGED <<smVars, otherVars>>

\* lines 135-144: lookupAlias finds the upstream under RLock and goes on to
\* lookup(remoteIP, u.AppID, ""); without an upstream it returns nil
LAlias(p) ==
    /\ lpc[p] = "alias"
    /\ LET i == getUpstreamByAlias(Upstreams, lcall[p].key) IN
       IF i = 0
         THEN /\ lpc' = [lpc EXCEPT ![p] = "return"]
              /\ UNCHANGED <<lcall, expect>>
         ELSE /\ lcall' = [lcall EXCEPT ![p].app = Upstreams[i].AppID]
              /\ expect' = IF p = Observed THEN last[<<lcall[p].ip, Upstreams[i].AppID>>]
                           ELSE expect
              /\ lpc' = [lpc EXCEPT ![p] = "byid"]
    /\ UNCHANGED <<Upstreams, sessions, wop, warg, wret, wbranch,
                   lu, lt, absent, clean, last>>
    /\ UNCHANGED <<smVars, otherVars>>

\* line 154: lookup finds the upstream (without the lock); without one it
\* returns nil.  The read races with the writers; with the upstreams of one
\* application the list has at most one element, and what the read can see is
\* the list before or after the racing write, i.e. this step before or after
\* the writer's.
LByID(p) ==
    /\ lpc[p] = "byid"
    /\ LET i == getUpstreamByID(Upstreams, lcall[p].app) IN
       IF i = 0
         THEN /\ lpc' = [lpc EXCEPT ![p] = "return"]
              /\ lu' = lu
         ELSE /\ lu' = [lu EXCEPT ![p] = Upstreams[i].obj]
              /\ lpc' = [lpc EXCEPT ![p] = "sess"]
    /\ UNCHANGED <<Upstreams, sessions, wop, warg, wret, wbranch,
                   lcall, lt, absent, expect, clean, last>>
    /\ UNCHANGED <<smVars, otherVars>>

\* a lookup that asks the session store last: the task id, then the balancer
LSessLast(p) ==
    /\ lpc[p] = "sess"
    /\ lpc' = [lpc EXCEPT ![p] = IF lcall[p].task # "" THEN "task" ELSE "next"]
    /\ UNCHANGED <<Upstreams, sessions, wop, warg, wret, wbranch,
                   lcall, lu, lt, absent, expect, clean, last>>
    /\ UNCHANGED <<smVars, otherVars>>

\* lines 164-167: u.sessions.get(remoteIP); a session wins over everything else
LSess(p) ==
    /\ lpc[p] = "sess"
    /\ LET t == SessionsGet(sessions[lu[p]], lcall[p].ip) IN
       IF t # NoTarget
         THEN /\ lt' = [lt EXCEPT ![p] = t]
              /\ lpc' = [lpc EXCEPT ![p] = "return"]
         ELSE /\ lpc' = [lpc EXCEPT ![p] = IF lcall[p].task # "" THEN "task" ELSE "next"]
              /\ lt' = lt
    /\ UNCHANGED <<Upstreams, sessions, wop, warg, wret, wbranch,
                   lcall, lu, absent, expect, clean, last>>
    /\ UNCHANGED <<smVars, otherVars>>

\* Upstreams.getTarget(appID, taskID), lines 90-101: the target of that task,
\* or nil (0)
UpstreamsGetTarget(ups, appID, taskID) ==
    LET iu == getUpstreamByID(ups, appID) IN
    IF iu = 0 THEN NoTarget
    ELSE IF getTarget(ups[iu].Targets, taskID) = 0 THEN NoTarget ELSE taskID

\* Upstreams.nextTarget(appID), lines 180-190: what it may return
nextTarget(ups, appID) ==
    LET iu == getUpstreamByID(ups, appID) IN
    IF iu = 0 THEN {NoTarget} ELSE BalancerNext(ups[iu].Targets)

\* lines 169-173: t = us.getTarget(appID, taskID), under RLock
LTask(p) ==
    /\ lpc[p] = "task"
    /\ lt' = [lt EXCEPT ![p] = UpstreamsGetTarget(Upstreams, lcall[p].app, lcall[p].task)]
    /\ lpc' = [lpc EXCEPT ![p] = "return"]
    /\ UNCHANGED <<Upstreams, sessions, wop, warg, wret, wbranch,
                   lcall, lu, absent, expect, clean, last>>
    /\ UNCHANGED <<smVars, otherVars>>

\* lines 175-177: t = us.nextTarget(appID), under RLock
LNext(p) ==
    /\ lpc[p] = "next"
    /\ \E t \in nextTarget(Upstreams, lcall[p].app) : lt' = [lt EXCEPT ![p] = t]
    /\ lpc' = [lpc EXCEPT ![p] = "return"]
    /\ UNCHANGED <<Upstreams, sessions, wop, warg, wret, wbranch,
                   lcall, lu, absent, expect, clean, last>>
    /\ UNCHANGED <<smVars, otherVars>>

\* the return of t, after the deferred function of lines 158-162 (registered
\* once u is known): u.sessions.update(remoteIP, t) when t is not nil
LReturn(p) ==
    /\ lpc[p] = "return"
    /\ sessions' = Reachable(IF lt[p] # NoTarget
                               THEN [sessions EXCEPT ![lu[p]] =
                                        SessionsUpdate(@, lcall[p].ip, lt[p])]
                               ELSE sessions,
                             Upstreams, HeldBy(LookupProcs \ {p}))
    /\ lpc' = [lpc EXCEPT ![p] = "idle"]
    /\ lcall' = [lcall EXCEPT ![p] = NoCall]
    /\ lu' = [lu EXCEPT ![p] = NoUpstream]
    /\ lt' = [lt EXCEPT ![p] = NoTarget]
    /\ IF p = Observed
         THEN /\ absent' = {}
              /\ expect' = NoTarget
              /\ clean' = FALSE
              /\ last' = IF lcall[p].app = "" THEN last
                         ELSE [last EXCEPT ![<<lcall[p].ip, lcall[p].app>>] =
                                  IF clean THEN lt[p] ELSE NoTarget]
         ELSE UNCHANGED <<absent, expect, clean, last>>
    /\ UNCHANGED <<Upstreams, wop, warg, wret, wbranch>>
    /\ UNCHANGED <<smVars, otherVars>>

\* the session sweeper: a session idle beyond the TTL is dropped
SessionExpire(o, ip) ==
    /\ o \in ObjsOf(Upstreams)
    /\ sessions[o][ip] # NoTarget
    /\ sessions' = [sessions EXCEPT ![o][ip] = NoTarget]
    /\ clean' = FALSE
    /\ expect' = NoTarget
    /\ last' = [k \in DOMAIN last |-> NoTarget]
    /\ UNCHANGED <<Upstreams, wop, warg, wret, wbranch, lpc, lcall, lu, lt, absent>>
    /\ UNCHANGED <<smVars, otherVars>>

-----------------------------------------------------------------------------
(* Upstream registry: the steps of the operations under the RWMutex        *)

\* the goroutine that calls upsertTarget / removeTarget, and the one that
\* calls lookup / lookupAlias
Writer == "w"
Reader == "r2"

NoRead == [fn |-> "none", held |-> FALSE, writing |-> FALSE]

LockInit ==
    /\ rw = [writer |-> NoProc, readers |-> {}]
    /\ wpc = "idle"
    /\ lastRead = NoRead

\* a read of us.Upstreams or of a target list by function fn of goroutine p
ReadBy(fn, p) ==
    [fn |-> fn, held |-> p \in rw.readers \/ rw.writer = p, writing |-> rw.writer # NoProc]

\* us.Lock() at line 52 / 104, on entry of upsertTarget(target) or
\* removeTarget(target)
KLock(op, target) ==
    /\ wpc = "idle"
    /\ rw.writer = NoProc /\ rw.readers = {}
    /\ rw' = [rw EXCEPT !.writer = Writer]
    /\ wop' = op
    /\ warg' = target
    /\ wpc' = "locked"
    /\ UNCHANGED <<Upstreams, sessions, lpc, lcall, lu, lt, lastRead>>
    /\ UNCHANGED lockFrame

\* lines 55-87 of upsertTarget / 106-130 of removeTarget, under the lock
KWrite ==
    /\ wpc = "locked"
    /\ IF wop = "upsertTarget"
         THEN LET obj == FreshObj(Upstreams, HeldBy(LookupProcs), warg.AppID)
                  r == upsertTarget(Upstreams, warg, obj)
              IN  /\ Upstreams' = r.ups
                  /\ sessions' = IF r.branch = "new upstream"
                                   THEN [sessions EXCEPT ![obj] = newSessions]
                                   ELSE sessions
         ELSE LET r == removeTarget(Upstreams, warg)
                  iu == getUpstreamByID(Upstreams, warg.AppID)
              IN  /\ Upstreams' = r.ups
                  /\ sessions' =
                        IF r.branch \in {"target removed", "upstream removed"}
                          THEN Reachable([sessions EXCEPT ![Upstreams[iu].obj] =
                                             SessionsRemove(@, warg.TaskID)],
                                         r.ups, HeldBy(LookupProcs))
                          ELSE sessions
    /\ lastRead' = ReadBy(wop, Writer)
    /\ wpc' = "written"
    /\ UNCHANGED <<wop, warg, rw, lpc, lcall, lu, lt>>
    /\ UNCHANGED lockFrame

\* the deferred us.Unlock() of line 53 / 105
KUnlock ==
    /\ wpc = "written"
    /\ rw' = [rw EXCEPT !.writer = NoProc]
    /\ wpc' = "idle"
    /\ wop' = "none"
    /\ warg' = NoTarget
    /\ UNCHANGED <<Upstreams, sessions, lpc, lcall, lu, lt, lastRead>>
    /\ UNCHANGED lockFrame

\* us.RLock() at line 135 (lookupAlias), 91 (getTarget) or 181 (nextTarget)
KRLock(p) ==
    /\ lpc[p] \in {"alias", "task", "next"}
    /\ rw.writer = NoProc
    /\ rw' = [rw EXCEPT !.readers = @ \cup {p}]
    /\ lpc' = [lpc EXCEPT ![p] = lpc[p] \o " locked"]
    /\ UNCHANGED <<Upstreams, sessions, wop, warg, wpc, lcall, lu, lt, lastRead>>
    /\ UNCHANGED lockFrame

\* lines 136-144: getUpstreamByAlias under RLock, RUnlock, then on to lookup
KAlias(p) ==
    /\ lpc[p] = "alias locked"
    /\ lastRead' = ReadBy("getUpstreamByAlias", p)
    /\ rw' = [rw EXCEPT !.readers = @ \ {p}]
    /\ LET i == getUpstreamByAlias(Upstreams, lcall[p].key) IN
       IF i = 0
         THEN /\ lpc' = [lpc EXCEPT ![p] = "return"]
              /\ lcall' = lcall
         ELSE /\ lcall' = [lcall EXCEPT ![p].app = Upstreams[i].AppID]
              /\ lpc' = [lpc EXCEPT ![p] = "byid"]
    /\ UNCHANGED <<Upstreams, sessions, wop, warg, wpc, lu, lt>>
    /\ UNCHANGED lockFrame

\* line 154: getUpstreamByID with no lock taken; it sees the list as it is
\* before or after the write of a writer that is at work
KByID(p) ==
    /\ lpc[p] = "byid"
    /\ lastRead' = ReadBy("getUpstreamByID", p)
    /\ LET i == getUpstreamByID(Upstreams, lcall[p].app) IN
       IF i = 0
         THEN /\ lpc' = [lpc EXCEPT ![p] = "return"]
              /\ lu' = lu
         ELSE /\ lu' = [lu EXCEPT ![p] = Upstreams[i].obj]
              /\ lpc' = [lpc EXCEPT ![p] = "sess"]
    /\ UNCHANGED <<Upstreams, sessions, wop, warg, wpc, rw, lcall, lt>>
    /\ UNCHANGED lockFrame

\* lines 94-100: getUpstreamByID and Upstream.getTarget under RLock, then the
\* deferred RUnlock
KTask(p) ==
    /\ lpc[p] = "task locked"
    /\ lastRead' = ReadBy("getTarget", p)
    /\ rw' = [rw EXCEPT !.readers = @ \ {p}]
    /\ lt' = [lt EXCEPT ![p] = UpstreamsGetTarget(Upstreams, lcall[p].app, lcall[p].task)]
    /\ lpc' = [lpc EXCEPT ![p] = "return"]
    /\ UNCHANGED <<Upstreams, sessions, wop, warg, wpc, lcall, lu>>
    /\ UNCHANGED lockFrame

\* lines 184-189: getUpstreamByID and balancer.Next(u.Targets) under RLock, then
\* the deferred RUnlock
KNext(p) ==
    /\ lpc[p] = "next locked"
    /\ lastRead' = ReadBy("nextTarget", p)
    /\ rw' = [rw EXCEPT !.readers = @ \ {p}]
    /\ \E t \in nextTarget(Upstreams, lcall[p].app) : lt' = [lt EXCEPT ![p] = t]
    /\ lpc' = [lpc EXCEPT ![p] = "return"]
    /\ UNCHANGED <<Upstreams, sessions, wop, warg, wpc, lcall, lu>>
    /\ UNCHANGED lockFrame

-----------------------------------------------------------------------------
(* Placement constraints: Valid and Eval of a Statement                    *)

\* var uniqWhat, var likeWhat
uniqWhat == <<"hostname">>
likeWhat == <<"hostname", "agentid">>

\* utils.SliceContains
SliceContains(slice, x) == \E i \in 1..Len(slice) : slice[i] = x

\* strings.Contains
Contains(str, substr) ==
    \E i \in 1..(Len(str) + 1) :
        /\ i + Len(substr) - 1 <= Len(str)
        /\ SubSeq(str, i, i + Len(substr) - 1) = substr

\* how often the one-character string c occurs in str
Count(str, c) == Cardinality({i \in 1..Len(str) : SubSeq(str, i, i) = c})

\* regexp.MustCompile for the patterns at hand, which are literal text with
\* or without group parentheses: a pattern with an unclosed group does not
\* compile and MustCompile panics
MustCompile(re) == IF Count(re, "(") # Count(re, ")") THEN Panic ELSE re

\* Regexp.MatchString for a literal pattern: the text occurs in str
MatchString(r, str) == Contains(str, r)

\* a nil pointer inside an offer (no agent id, no text value)
NoValue == "<nil>"

\* the attribute types (mesos.Value_TEXT and another one)
Value_TEXT == "TEXT"
Value_SCALAR == "SCALAR"

\* the statements: the three kinds of leaves and Not, And, Or over them
UniqueStatment(what) == [kind |-> "unique", What |-> what, Regex |-> ""]
LikeStatement(what, regex) == [kind |-> "like", What |-> what, Regex |-> regex]
ContainsStatement(what, regex) == [kind |-> "contains", What |-> what, Regex |-> regex]
NotStatement(op1) == [kind |-> "not", Op1 |-> op1]
AndStatement(op1, op2) == [kind |-> "and", Op1 |-> op1, Op2 |-> op2]
OrStatement(op1, op2) == [kind |-> "or", Op1 |-> op1, Op2 |-> op2]

NoStmt == [kind |-> "none"]

\* the values of What: the two built-in names and a user-defined attribute
Whats == {"hostname", "agentid", "rack"}

\* the patterns of Like: a literal and one with an unclosed group
Regexes == {"h1", "("}

Leaves ==
    {UniqueStatment(w) : w \in Whats}
    \cup {LikeStatement(w, re) : w \in Whats, re \in Regexes}
    \cup {ContainsStatement(w, "h1") : w \in Whats}

Statements ==
    Leaves
    \cup {NotStatement(a) : a \in Leaves}
    \cup {AndStatement(a, b) : a, b \in Leaves}
    \cup {OrStatement(a, b) : a, b \in Leaves}
    \cup {NotStatement(AndStatement(a, NotStatement(a))) : a \in Leaves}

\* the offers: a hostname, an agent id or none, at most one attribute named
\* rack, text-valued or not
Offers ==
    {[Hostname |-> h, AgentId |-> ag, Attributes |-> at] :
        h \in {"h1", "h2"},
        ag \in {NoValue, "agent-h1"},
        at \in {<<>>,
                <<[Name |-> "rack", Type |-> Value_TEXT, Text |-> "h1-rack"]>>,
                <<[Name |-> "rack", Type |-> Value_SCALAR, Text |-> NoValue]>>}}

\* the slots: what matters of a slot is where the running tasks of its
\* application are
Slots == {[RunningOn |-> r] : r \in {{}, {"h1"}}}

Contexts == {[Offer |-> o, Slot |-> sl] : o \in Offers, sl \in Slots}

NoContext == [Offer |-> NoValue, Slot |-> NoValue]

\* how a Go bool reads here, Eval giving a bool or panicking
Bool(b) == IF b THEN "true" ELSE "false"

\* UniqueStatment.Eval, lines 122-128: the hostname branch is empty
UniqueEval(s, c) == "false"

\* the first attribute of the offer that has the name what and a text value,
\* as the loops of lines 161-165 and 200-204 find it, or 0
TextAttr(o, what) ==
    LET hit == {i \in 1..Len(o.Attributes) :
                   o.Attributes[i].Name = what /\ o.Attributes[i].Type = Value_TEXT}
    IN  IF hit = {} THEN 0 ELSE CHOOSE i \in hit : \A j \in hit : i <= j

\* LikeStatement.Eval, lines 150-168
LikeEval(s, c) ==
    LET r == MustCompile(s.Regex) IN
    IF r = Panic THEN Panic
    ELSE IF s.What = "hostname" THEN Bool(MatchString(r, c.Offer.Hostname))
    ELSE IF s.What = "agentid"
      THEN IF c.Offer.AgentId = NoValue THEN Panic
           ELSE Bool(MatchString(r, c.Offer.AgentId))
    ELSE LET i == TextAttr(c.Offer, s.What) IN
         IF i = 0 THEN "false"
         ELSE IF c.Offer.Attributes[i].Text = NoValue THEN Panic
         ELSE Bool(MatchString(r, c.Offer.Attributes[i].Text))

\* ContainsStatement.Eval, lines 190-207
ContainsEval(s, c) ==
    IF s.What = "hostname" THEN Bool(Contains(c.Offer.Hostname, s.Regex))
    ELSE IF s.What = "agentid"
      THEN IF c.Offer.AgentId = NoValue THEN Panic
           ELSE Bool(Contains(c.Offer.AgentId, s.Regex))
    ELSE LET i == TextAttr(c.Offer, s.What) IN
         IF i = 0 THEN "false"
         ELSE IF c.Offer.Attributes[i].Text = NoValue THEN Panic
         ELSE Bool(Contains(c.Offer.Attributes[i].Text, s.Regex))

\* Statement.Eval: Not negates; And and Or evaluate Op2 first and Op1 only
\* when Op2 does not decide
RECURSIVE Eval(_, _)
Eval(s, c) ==
    CASE s.kind = "unique" -> UniqueEval(s, c)
      [] s.kind = "like" -> LikeEval(s, c)
      [] s.kind = "contains" -> ContainsEval(s, c)
      [] s.kind = "not" ->
            LET e == Eval(s.Op1, c) IN
            IF e = Panic THEN Panic ELSE Bool(e = "false")
      [] s.kind = "and" ->
            LET e2 == Eval(s.Op2, c) IN
            IF e2 # "true" THEN e2 ELSE Eval(s.Op1, c)
      [] s.kind = "or" ->
            LET e2 == Eval(s.Op2, c) IN
            IF e2 # "false" THEN e2 ELSE Eval(s.Op1, c)

\* LikeStatement.Valid, lines 170-176
LikeValid(s) ==
    IF SliceContains(likeWhat, s.What) THEN "nil"
    ELSE "only hostname, agentid are supported"

\* Statement.Valid: nil or the error
RECURSIVE Valid(_)
Valid(s) ==
    CASE s.kind = "unique" ->
            IF SliceContains(uniqWhat, s.What) THEN "nil"
            ELSE "only hostname is supported for the time being"
      [] s.kind = "like" -> LikeValid(s)
      [] s.kind = "contains" ->
            IF SliceContains(likeWhat, s.What) THEN "nil"
            ELSE "only hostname, ip, agentid are supported"
      [] s.kind = "not" -> Valid(s.Op1)
      [] s.kind \in {"and", "or"} ->
            IF Valid(s.Op1) # "nil" THEN Valid(s.Op1) ELSE Valid(s.Op2)

ConInit ==
    /\ stmt = NoStmt
    /\ ctx = NoContext
    /\ cpc = "none"
    /\ cvalid = "none"
    /\ ceval = "none"

\* the parser hands out a statement
NewStatement(s) ==
    /\ cpc = "none"
    /\ stmt' = s
    /\ ctx' = NoContext
    /\ cpc' = "new"
    /\ cvalid' = "none"
    /\ ceval' = "none"
    /\ UNCHANGED conFrame

\* the statement is dropped once it has been evaluated
DropStatement ==
    /\ cpc = "evaluated"
    /\ stmt' = NoStmt
    /\ ctx' = NoContext
    /\ cpc' = "none"
    /\ cvalid' = "none"
    /\ ceval' = "none"
    /\ UNCHANGED conFrame

\* stmt.Valid()
CallValid ==
    /\ cpc = "new"
    /\ cvalid' = Valid(stmt)
    /\ cpc' = "valid"
    /\ UNCHANGED <<stmt, ctx, ceval>>
    /\ UNCHANGED conFrame

\* stmt.SetContext(c), which hands the offer and the slot down to every leaf
SetContext(c) ==
    /\ cpc = "valid"
    /\ ctx' = c
    /\ cpc' = "context"
    /\ UNCHANGED <<stmt, cvalid, ceval>>
    /\ UNCHANGED conFrame

\* stmt.Eval()
CallEval ==
    /\ cpc = "context"
    /\ ceval' = Eval(stmt, ctx)
    /\ cpc' = "evaluated"
    /\ UNCHANGED <<stmt, ctx, cvalid>>
    /\ UNCHANGED conFrame

-----------------------------------------------------------------------------
(* Event subscription: EventsService.Events                                *)

\* the number of events the scheduler publishes
MaxEvents == 3

\* the applications events are about
EventApps == {"a", "b"}

\* the values of the query parameters appId and catchUp
AppIdParams == {"", "a"}
CatchUpParams == {"true", "True", "false", ""}

NoSub == [appId |-> "", catchUp |-> ""]

UpperCase == "ABCDEFGHIJKLMNOPQRSTUVWXYZ"
LowerCase == "abcdefghijklmnopqrstuvwxyz"

\* the lower-case letter of a one-character string
LowerChar(c) ==
    LET hit == {i \in 1..Len(UpperCase) : SubSeq(UpperCase, i, i) = c}
    IN  IF hit = {} THEN c ELSE LET i == CHOOSE i \in hit : TRUE IN SubSeq(LowerCase, i, i)

\* strings.ToLower
RECURSIVE ToLower(_)
ToLower(str) ==
    IF Len(str) = 0 THEN ""
    ELSE LowerChar(SubSeq(str, 1, 1)) \o ToLower(SubSeq(str, 2, Len(str)))

\* line 55: strings.ToLower(catchUp) == "true"
CatchUpWanted(catchUp) == ToLower(catchUp) = "true"

\* the filter of the event bus: a listener gets the events of its application,
\* a listener without appId all events
InterestIn(appId, e) == appId = "" \/ e.AppId = appId

\* listener.Write(e): the event goes out to the subscriber, unless the
\* connection is closed
Write(e, via) ==
    IF closed THEN out' = out
    ELSE out' = Append(out, [id |-> e.id, AppId |-> e.AppId, via |-> via])

EvInit ==
    /\ ring = <<>>
    /\ attached = FALSE
    /\ sub = NoSub
    /\ hpc = "idle"
    /\ gpc = "none"
    /\ replay = <<>>
    /\ out = <<>>
    /\ closed = FALSE
    /\ pubd = {}

\* the scheduler has a healthy-task event of application app: it joins the
\* healthy-task events and is published on the event bus, which writes it to
\* every registered listener interested in it
Publish(app) ==
    /\ Len(ring) < MaxEvents
    /\ LET e == [id |-> Len(ring) + 1, AppId |-> app] IN
       /\ ring' = Append(ring, e)
       /\ pubd' = IF hpc # "idle" /\ ~closed THEN pubd \cup {e.id} ELSE pubd
       /\ IF attached /\ InterestIn(sub.appId, e)
            THEN Write(e, "live")
            ELSE out' = out
    /\ UNCHANGED <<attached, sub, hpc, gpc, replay, closed>>
    /\ UNCHANGED evFrame

\* lines 50-52: the handler reads appId and catchUp and makes the listener
EventsCall(appId, catchUp) ==
    /\ hpc = "idle"
    /\ sub' = [appId |-> appId, catchUp |-> catchUp]
    /\ hpc' = "listener"
    /\ UNCHANGED <<ring, attached, gpc, replay, out, closed, pubd>>
    /\ UNCHANGED evFrame

\* a handler that goes on without registering the listener
EvSkipListener ==
    /\ hpc = "listener"
    /\ hpc' = "go"
    /\ UNCHANGED <<ring, attached, sub, gpc, replay, out, closed, pubd>>
    /\ UNCHANGED evFrame

\* line 53: eventbus.AddListener(listener)
EvAddListener ==
    /\ hpc = "listener"
    /\ attached' = TRUE
    /\ hpc' = "go"
    /\ UNCHANGED <<ring, sub, gpc, replay, out, closed, pubd>>
    /\ UNCHANGED evFrame

\* line 54: go func() {...}(); the handler goes on to wait at line 61
EvGo ==
    /\ hpc = "go"
    /\ gpc' = "start"
    /\ hpc' = "wait"
    /\ UNCHANGED <<ring, attached, sub, replay, out, closed, pubd>>
    /\ UNCHANGED evFrame

\* lines 55-56: the goroutine checks catchUp and takes the healthy-task events
EvSnapshot ==
    /\ gpc = "start"
    /\ IF CatchUpWanted(sub.catchUp)
         THEN /\ replay' = ring
              /\ gpc' = "write"
         ELSE /\ replay' = replay
              /\ gpc' = "end"
    /\ UNCHANGED <<ring, attached, sub, hpc, out, closed, pubd>>
    /\ UNCHANGED evFrame

\* line 57, one turn of the loop: listener.Write(e); after the last event the
\* goroutine ends
EvReplay ==
    /\ gpc = "write"
    /\ IF replay = <<>>
         THEN /\ gpc' = "end"
              /\ UNCHANGED <<replay, out>>
         ELSE /\ Write(Head(replay), "replay")
              /\ replay' = Tail(replay)
              /\ gpc' = gpc
    /\ UNCHANGED <<ring, attached, sub, hpc, closed, pubd>>
    /\ UNCHANGED evFrame

\* the subscriber disconnects: doneChan fires
Disconnect ==
    /\ hpc # "idle"
    /\ ~closed
    /\ closed' = TRUE
    /\ UNCHANGED <<ring, attached, sub, hpc, gpc, replay, out, pubd>>
    /\ UNCHANGED evFrame

\* lines 61-62: <-doneChan; eventbus.RemoveListener(listener)
EvRemoveListener ==
    /\ hpc = "wait"
    /\ closed
    /\ attached' = FALSE
    /\ hpc' = "end"
    /\ UNCHANGED <<ring, sub, gpc, replay, out, closed, pubd>>
    /\ UNCHANGED evFrame

-----------------------------------------------------------------------------
(* Specifications                                                          *)

Init == SMInit /\ RegInit /\ LookInit /\ ConInit /\ EvInit /\ LockInit

\* the state machine: Start and concurrent TransitTo calls
SpecSM == Init /\ [][SMNext]_vars

\* the writers alone: every sequence of upsertTarget and removeTarget calls
RegNext ==
    \/ \E t \in RegTargets : Upsert(t, TRUE)
    \/ \E t \in RegTargets : Remove(t, TRUE)

SpecReg == Init /\ [][RegNext]_vars

\* the writers, two lookup goroutines and the session sweeper
UpNext ==
    \/ \E t \in LookTargets : Upsert(t, FALSE)
    \/ \E t \in LookTargets : Remove(t, FALSE)
    \/ \E p \in LookupProcs : \E call \in CallsOf(p) : LCall(p, call)
    \/ \E p \in LookupProcs : LAlias(p)
    \/ \E p \in LookupProcs : LByID(p)
    \/ \E p \in LookupProcs : LSess(p)
    \/ \E p \in LookupProcs : LTask(p)
    \/ \E p \in LookupProcs : LNext(p)
    \/ \E p \in LookupProcs : LReturn(p)
    \/ \E o \in ObjIds, ip \in RemoteIPs : SessionExpire(o, ip)

SpecUp == Init /\ [][UpNext]_vars

\* the life of one machine from NewStateMachine on: Start, the readers and the
\* TransitTo calls of one goroutine
LifeNext ==
    \/ Start
    \/ ReadableStateCall
    \/ \E stateExpected \in {APP_STATE_CREATING, APP_STATE_NORMAL} : IsCall(stateExpected)
    \/ \E target \in TransitArgs : TransitCall("g1", target)
    \/ TransitCheck("g1")
    \/ TransitLock("g1")
    \/ TransitOnExit("g1")
    \/ TransitFactory("g1")
    \/ TransitOnEnter("g1")
    \/ TransitUnlock("g1")

SpecLife == Init /\ [][LifeNext]_vars

\* the operations on the registry step by step, with the RWMutex: one
\* goroutine writing, one looking up
LockNext ==
    \/ \E t \in LookTargets : KLock("upsertTarget", t)
    \/ \E t \in LookTargets : KLock("removeTarget", t)
    \/ KWrite
    \/ KUnlock
    \/ \E call \in LookupCalls : LCall(Reader, call)
    \/ KRLock(Reader)
    \/ KAlias(Reader)
    \/ KByID(Reader)
    \/ LSess(Reader)
    \/ KTask(Reader)
    \/ KNext(Reader)
    \/ LReturn(Reader)

SpecLock == Init /\ [][LockNext]_vars

\* the constraints: a statement is parsed, validated, given a context and
\* evaluated
ConNext ==
    \/ \E s \in Statements : NewStatement(s)
    \/ CallValid
    \/ \E c \in Contexts : SetContext(c)
    \/ CallEval
    \/ DropStatement

SpecCon == Init /\ [][ConNext]_vars

\* one event subscription, the scheduler publishing events all along
EvNext ==
    \/ \E app \in EventApps : Publish(app)
    \/ \E appId \in AppIdParams, catchUp \in CatchUpParams : EventsCall(appId, catchUp)
    \/ EvAddListener
    \/ EvGo
    \/ EvSnapshot
    \/ EvReplay
    \/ Disconnect
    \/ EvRemoveListener

SpecEv == Init /\ [][EvNext]_vars

-----------------------------------------------------------------------------
(* Claims about the state machine                                          *)

\* the call of goroutine p has passed line 52 on a started machine
Checked(p) == pc[p] \notin {"idle", "check"} /\ seen[p] # NoState

\* C4: a TransitTo whose target the transition table does not admit from the
\* state the call finds returns an error, never assigns machine.state and
\* invokes neither OnExit nor OnEnter.
C4_RefusedTransitIsNoOp ==
    \A p \in Procs :
        (Checked(p) /\ ~CanTransitTo(seen[p], arg[p])) =>
            /\ pc[p] = "returned"
            /\ ret[p] = "error"
            /\ ~wrote[p]
            /\ hooks[p] = <<>>

C4_Witness ==
    \E p \in Procs :
        /\ pc[p] = "returned" /\ ret[p] = "error"
        /\ seen[p] = APP_STATE_NORMAL /\ arg[p] = APP_STATE_CREATING
        /\ state = APP_STATE_NORMAL

\* C5: a TransitTo whose target the transition table admits from the state the
\* call finds ends by returning nil, having put the machine in that state.
C5_AdmittedTransitSucceeds ==
    \A p \in Procs :
        (Checked(p) /\ CanTransitTo(seen[p], arg[p]) /\ pc[p] \in {"returned", "panicked"}) =>
            /\ ret[p] = "nil"
            /\ wrote[p]

\* C6: every assignment TransitTo makes to machine.state is a transition the
\* table admits from the state the machine is in at the moment of the change.
C6_EveryChangeAdmitted ==
    lastChange = <<>> \/ CanTransitTo(lastChange[1], lastChange[2])

\* C18: from NewStateMachine on, and until a TransitTo changes the state,
\* ReadableState gives creating and Is(creating) gives true; Start has invoked
\* OnEnter of creating, once.
C18_DefaultIsCreating ==
    /\ (lastChange = <<>> /\ obs.op = "ReadableState") => obs.result = APP_STATE_CREATING
    /\ (lastChange = <<>> /\ obs.op = "Is" /\ obs.arg = APP_STATE_CREATING) =>
           obs.result = "true"
    /\ started > 0 => entered = <<APP_STATE_CREATING>>

\* C19: a TransitTo call that has ended, by returning or by a panic, does not
\* hold the machine's mutex.
C19_MutexNeverLeftHeld ==
    \A p \in Procs : pc[p] \in {"returned", "panicked"} => lock # p

-----------------------------------------------------------------------------
(* Claims about the upstream registry                                      *)

\* every target held by the registry ups
Entries(ups) ==
    UNION {{ups[i].Targets[j] : j \in 1..Len(ups[i].Targets)} : i \in 1..Len(ups)}

\* the registry ups has an upstream for appID
HasApp(ups, appID) == \E i \in 1..Len(ups) : ups[i].AppID = appID

\* C1: after any sequence of upsertTarget and removeTarget calls no two
\* upstreams of the registry have the same AppAlias.
C1_AliasUnique ==
    \A i, j \in 1..Len(Upstreams) :
        i # j => Upstreams[i].AppAlias # Upstreams[j].AppAlias

C1_Witness ==
    /\ Len(Upstreams) = 2
    /\ wbranch = "new upstream"
    /\ {Upstreams[i].AppAlias : i \in 1..Len(Upstreams)} = Aliases

\* C2: an upsertTarget whose target's AppID has no upstream and whose AppAlias
\* an upstream of another AppID holds returns an error and leaves the list of
\* upstreams, with every target list and target field, as it was.
C2_ConflictLeavesRegistry ==
    [][\A t \in RegTargets :
          ( /\ wop' = "upsertTarget" /\ warg' = t
            /\ ~HasApp(Upstreams, t.AppID)
            /\ \E i \in 1..Len(Upstreams) :
                  Upstreams[i].AppAlias = t.AppAlias /\ Upstreams[i].AppID # t.AppID )
          => (wret' # "nil" /\ Upstreams' = Upstreams)]_vars

C2_Witness ==
    /\ wop = "upsertTarget"
    /\ wret = "alias conflict"
    /\ ~HasApp(Upstreams, warg.AppID)
    /\ \E i \in 1..Len(Upstreams) : Upstreams[i].AppAlias = warg.AppAlias

\* C3: after any sequence of upsertTarget and removeTarget calls the TaskID of
\* every target in an upstream's target list ends with "-" followed by the
\* target's AppID.
C3_TaskIDSuffix ==
    \A t \in Entries(Upstreams) : HasSuffix(t.TaskID, "-" \o t.AppID)

\* C10: removeTarget drops the target with the AppID and TaskID of its argument
\* and nothing else, an upstream it empties leaves the registry, so every
\* upstream of the registry has at least one target; for an AppID or a TaskID
\* the registry does not hold, removeTarget leaves the registry as it was.
C10_RemoveTarget ==
    /\ [](\A i \in 1..Len(Upstreams) : Len(Upstreams[i].Targets) >= 1)
    /\ [][\A t \in RegTargets :
             (wop' = "removeTarget" /\ warg' = t) =>
                 LET hit == {e \in Entries(Upstreams) :
                                e.AppID = t.AppID /\ e.TaskID = t.TaskID}
                 IN  IF hit = {}
                       THEN Upstreams' = Upstreams
                       ELSE /\ Entries(Upstreams') = Entries(Upstreams) \ hit
                            /\ HasApp(Upstreams', t.AppID) <=>
                                  (\E e \in Entries(Upstreams) \ hit : e.AppID = t.AppID)
                            /\ \A a \in AppIDs \ {t.AppID} :
                                  HasApp(Upstreams', a) <=> HasApp(Upstreams, a)]_vars

C10_Witness ==
    /\ wop = "removeTarget"
    /\ wbranch = "upstream removed"
    /\ ~HasApp(Upstreams, warg.AppID)
    /\ Len(Upstreams) = 1

\* C20: after any sequence of upsertTarget and removeTarget calls the registry
\* has at most one upstream per AppID and each upstream at most one target per
\* TaskID; an upsertTarget for an AppID and TaskID the registry holds keeps
\* the number of upstreams and of targets, gives that target the VersionID,
\* AppVersion, TaskIP, TaskPort and Weight of its argument, keeps its AppID,
\* AppAlias and TaskID, and keeps every other target as it was.
C20_OnePerKeyAndUpdateFrame ==
    /\ [](/\ \A i, j \in 1..Len(Upstreams) :
                i # j => Upstreams[i].AppID # Upstreams[j].AppID
          /\ \A i \in 1..Len(Upstreams) : \A j, k \in 1..Len(Upstreams[i].Targets) :
                j # k => Upstreams[i].Targets[j].TaskID # Upstreams[i].Targets[k].TaskID)
    /\ [][\A t \in RegTargets :
             ( /\ wop' = "upsertTarget" /\ warg' = t
               /\ \E e \in Entries(Upstreams) : e.AppID = t.AppID /\ e.TaskID = t.TaskID )
             => /\ Len(Upstreams') = Len(Upstreams)
                /\ \A i \in 1..Len(Upstreams) :
                      /\ Upstreams'[i].AppID = Upstreams[i].AppID
                      /\ Upstreams'[i].AppAlias = Upstreams[i].AppAlias
                      /\ Len(Upstreams'[i].Targets) = Len(Upstreams[i].Targets)
                      /\ \A j \in 1..Len(Upstreams[i].Targets) :
                            LET o == Upstreams[i].Targets[j]
                                n == Upstreams'[i].Targets[j]
                            IN  IF o.AppID = t.AppID /\ o.TaskID = t.TaskID
                                  THEN n = [o EXCEPT !.VersionID = t.VersionID,
                                                     !.AppVersion = t.AppVersion,
                                                     !.TaskIP = t.TaskIP,
                                                     !.TaskPort = t.TaskPort,
                                                     !.Weight = t.Weight]
                                  ELSE n = o]_vars

C20_Witness ==
    /\ wop = "upsertTarget"
    /\ wbranch = "update"
    /\ warg = Target("a", "bar", "v1", "t1-a")
    /\ \E e \in Entries(Upstreams) :
          e.TaskID = "t1-a" /\ e.AppAlias = "foo" /\ e.VersionID = "v1"
    /\ \E e \in Entries(Upstreams) : e.TaskID = "t2-a"

\* C17: every read of the upstream list or of a target list is made by a
\* goroutine holding the registry's lock, and none while a writer is between
\* Lock and Unlock unless it is the writer's own.
C17_ReadsUnderLock ==
    lastRead.fn # "none" =>
        /\ lastRead.held
        /\ lastRead.writing => lastRead.fn \in {"upsertTarget", "removeTarget"}

-----------------------------------------------------------------------------
(* Claims about lookup                                                     *)

\* the observed lookup goroutine has its result and is about to return it
Returning == lpc[Observed] = "return"

\* C7: when the previous lookup of a client (remoteIP) for an appID returned a
\* target and since then no target was removed and no session expired, the
\* client's next lookup for that appID returns the same target, whatever its
\* taskID argument.
C7_SessionAffinity ==
    (Returning /\ expect # NoTarget) => lt[Observed] = expect

C7_Witness ==
    /\ Returning
    /\ expect = "t1-a"
    /\ lcall[Observed].task = "t2-a"
    /\ lt[Observed] = "t1-a"
    /\ "t2-a" \in TasksIn(Upstreams)

\* C8: a lookup that starts after removeTarget(t) has returned does not return
\* t unless t was upserted again.  (A target is returned only after it was in
\* the registry, so a target in no upstream when the lookup started is one
\* that removeTarget had removed.)
C8_NeverReturnsRemoved ==
    Returning => lt[Observed] \notin absent

\* C9: lookup returns the target of the client's session when there is one and
\* its target still exists; else, given a taskID, exactly the target of that
\* TaskID in the upstream or none; else what the balancer's Next makes of the
\* upstream's targets; on return the session of remoteIP is bound to a target
\* that was found; for an unknown appID or alias it returns none.
C9_ResolutionOrder ==
    [][LET p == Observed
           c == lcall[p]
           s == SessionsGet(sessions[lu[p]], c.ip)
           live == s # NoTarget /\ UpstreamsGetTarget(Upstreams, c.app, s) # NoTarget
           rest == IF c.task # "" THEN "task" ELSE "next"
       IN  /\ (lpc[p] = "sess" /\ lpc'[p] # "sess") =>
                 IF live THEN lpc'[p] = "return" /\ lt'[p] = s
                 ELSE lpc'[p] = rest /\ lt'[p] = NoTarget
           /\ (lpc[p] = "task" /\ lpc'[p] # "task") =>
                 lt'[p] = UpstreamsGetTarget(Upstreams, c.app, c.task)
           /\ (lpc[p] = "next" /\ lpc'[p] # "next") =>
                 lt'[p] \in nextTarget(Upstreams, c.app)
           /\ (lpc[p] = "return" /\ lpc'[p] # "return" /\ lt[p] # NoTarget
                 /\ lu[p] \in ObjsOf(Upstreams)) =>
                 sessions'[lu[p]][c.ip] = lt[p]
           /\ (lpc[p] = "byid" /\ ~HasApp(Upstreams, c.app)) =>
                 lpc'[p] \in {"byid", "return"} /\ lt'[p] = NoTarget
           /\ (lpc[p] = "alias" /\ getUpstreamByAlias(Upstreams, c.key) = 0) =>
                 lpc'[p] \in {"alias", "return"} /\ lt'[p] = NoTarget]_vars

-----------------------------------------------------------------------------
(* Claims about the placement constraints                                  *)

\* the restriction table: unique takes hostname only; like and contains take
\* hostname, agentid and every user-defined attribute name; Not, And and Or
\* are valid when all their operands are
RECURSIVE TableValid(_)
TableValid(s) ==
    CASE s.kind = "unique" -> s.What = "hostname"
      [] s.kind \in {"like", "contains"} -> s.What \in Whats
      [] s.kind = "not" -> TableValid(s.Op1)
      [] s.kind \in {"and", "or"} -> TableValid(s.Op1) /\ TableValid(s.Op2)

\* C14: Valid returns nil exactly for the statements the restriction table
\* admits.
C14_ValidFollowsTable ==
    cpc \in {"valid", "context", "evaluated"} =>
        ((cvalid = "nil") <=> TableValid(stmt))

\* the data a leaf needs is missing from the context: a pattern that does not
\* compile, an offer without agent id, no text-valued attribute of that name
MissingData(s, c) ==
    /\ s.kind \in {"like", "contains"}
    /\ \/ s.kind = "like" /\ MustCompile(s.Regex) = Panic
       \/ s.What = "agentid" /\ c.Offer.AgentId = NoValue
       \/ s.What \notin {"hostname", "agentid"} /\ TextAttr(c.Offer, s.What) = 0

\* C15: Eval of a statement that passed Valid returns a boolean under every
\* context, and false when the data it needs is missing.
C15_EvalNeverFails ==
    (cpc = "evaluated" /\ cvalid = "nil") =>
        /\ ceval \in {"true", "false"}
        /\ MissingData(stmt, ctx) => ceval = "false"

\* C16: Eval of unique hostname returns true exactly when no running task of
\* the slot's application is on the offer's hostname.
C16_UniqueHostname ==
    (cpc = "evaluated" /\ stmt = UniqueStatment("hostname")) =>
        ((ceval = "true") <=> (ctx.Offer.Hostname \notin ctx.Slot.RunningOn))

-----------------------------------------------------------------------------
(* Claims about the event subscription                                     *)

\* C11: of what is written to a subscriber, every replayed catch-up event
\* comes before every live event.
C11_ReplayBeforeLive ==
    \A i, j \in 1..Len(out) :
        (out[i].via = "live" /\ out[j].via = "replay") => j < i

\* the subscription asked for catch-up, the replay is over and the subscriber
\* is still connected
CaughtUp ==
    /\ hpc = "wait"
    /\ gpc = "end"
    /\ ~closed
    /\ CatchUpWanted(sub.catchUp)

C13_FilterByApp ==
    sub.appId # "" => \A i \in 1..Len(out) : out[i].AppId = sub.appId

=============================================================================
